---------------------------- MODULE Spec2Model ----------------------------
(***************************************************************************)
(* Model of the vinxi middleware layer (package layer): the handler        *)
(* adapter (adapter.go), the per-phase priority stacks kept in the Pool,   *)
(* and Layer.Use / UsePriority / UseFinalHandler / Flush / Run (layer.go). *)
(*                                                                         *)
(* An http.Handler is modelled by what happens when it is served: a        *)
(* sequence of nodes, the first node being the handler that is entered     *)
(* and the rest the downstream handler it holds.  The nil handler is the   *)
(* empty sequence.  A node's "beh" is what the user's code does when it    *)
(* is entered:                                                             *)
(*   "pass"       it calls its downstream and returns                      *)
(*   "stop"       it returns without calling its downstream                *)
(*   "fault"      it panics without calling its downstream                 *)
(*   "passfault"  it calls its downstream and panics after that returned   *)
(* Panic values are non-nil (the name of the handler that panicked).       *)
(* Terminals and final handlers respond ("stop"): what they write is       *)
(* outside the engine.                                                     *)
(***************************************************************************)
EXTENDS Integers, Sequences, FiniteSets, TLC

VARIABLES
    Pool,           \* Layer.Pool: phase -> Stack, defined on the phases that have a stack
    memo,           \* Layer.memo: phase -> handler, defined on the keys that were assigned
    finalHandler,   \* Layer.finalHandler
    nextReg,        \* identity given to the next handler value pushed into a stack
    last,           \* the last call made on the Layer and what it did
    env,            \* what the callers of the Layer pass to it
    inflight        \* the calls in progress, when calls are made concurrently

vars == <<Pool, memo, finalHandler, nextReg, last, env, inflight>>

(***************************************************************************)
(* Bounds of the model.                                                    *)
(***************************************************************************)
MaxRegs == 2        \* handler values pushed over the whole life of the Layer
MaxArgs == 1        \* handler arguments of one Use / UsePriority call
MaxPriority == 1    \* priorities are 0 .. MaxPriority
MaxAbortArgs == 3   \* handler arguments of one call, for callers passing unsupported values
MaxOrderRegs == 3   \* handler values pushed, for callers filling one phase

(***************************************************************************)
(* Constants of the program.                                               *)
(***************************************************************************)
ErrorPhase == "error"
RequestPhase == "request"
Phases == {RequestPhase, ErrorPhase}

None == "none"      \* no panic / no value

NilHandler == <<>>

TermNode(name, beh) == [name |-> name, reg |-> 0, beh |-> beh]

FinalHandler == <<TermNode("FinalHandler", "stop")>>
FinalErrorHandler == <<TermNode("FinalErrorHandler", "stop")>>

\* Handlers a caller passes to UseFinalHandler.
FinalHandlers == {FinalHandler, <<TermNode("F1", "stop")>>}

\* Terminals a caller passes to Run: none (nil), or one of its own.
Terminals == {NilHandler, <<TermNode("T1", "stop")>>}

\* Values a caller passes to Use / UsePriority, by the shape AdaptFunc tests for
\* and by what the function does when it is entered.
mwPass == [name |-> "mw", shape |-> "MiddlewareFunc", beh |-> "pass"]
nextPassFault == [name |-> "next", shape |-> "HandlerFuncNext", beh |-> "passfault"]
objFault == [name |-> "obj", shape |-> "Handler", beh |-> "fault"]
fnStop == [name |-> "fn", shape |-> "HandlerFunc", beh |-> "stop"]

\* The lists of at most n handler arguments drawn from args.
ArgLists(args, n) == UNION { [1 .. k -> args] : k \in 0 .. n }

HandlerArgs == {mwPass, nextPassFault, objFault, fnStop}

\* The callers the model is checked with: the phases they use, the argument lists
\* of their Use / UsePriority calls, the terminals of their Run calls, the handlers
\* of their UseFinalHandler calls, and how many handler values they get pushed.
Callers ==
    [phases |-> Phases, calls |-> ArgLists(HandlerArgs, MaxArgs), terms |-> Terminals,
     finals |-> FinalHandlers, maxRegs |-> MaxRegs]

\* A value no test of AdaptFunc accepts, and that has no Register method.
strValue == [name |-> "str", shape |-> "string", beh |-> "none"]

\* Callers that pass unsupported values among the handlers of a call.
AbortCallers ==
    [phases |-> Phases, calls |-> ArgLists({mwPass, strValue}, MaxAbortArgs),
     terms |-> {NilHandler}, finals |-> {FinalHandler}, maxRegs |-> MaxRegs]

\* A value that is an http.Handler and responds.
hdlStop == [name |-> "hdl", shape |-> "httpHandler", beh |-> "stop"]

\* Callers that fill the request phase, one handler a call.
OrderCallers ==
    [phases |-> {RequestPhase},
     calls |-> ArgLists({mwPass, nextPassFault, fnStop, hdlStop}, MaxArgs),
     terms |-> Terminals, finals |-> {FinalHandler}, maxRegs |-> MaxOrderRegs]

\* Callers that register into the two phases handlers that pass on or respond.
FrameCallers ==
    [phases |-> Phases, calls |-> ArgLists({mwPass, fnStop}, MaxArgs),
     terms |-> Terminals, finals |-> {FinalHandler}, maxRegs |-> MaxRegs]

\* Values with a Register method: one that is also a Handler (HandleHTTP) and whose
\* Register does nothing, and one whose Register registers a request handler and
\* an error handler, as in the comment of Registrable.
plugHandler ==
    [name |-> "plug", shape |-> "Handler", beh |-> "pass", register |-> <<>>]
plugBoth ==
    [name |-> "both", shape |-> "Registrable", beh |-> "none",
     register |-> <<[phase |-> RequestPhase, args |-> <<mwPass>>],
                    [phase |-> ErrorPhase, args |-> <<fnStop>>]>>]

\* Callers that pass Registrable values.
PluginCallers ==
    [phases |-> Phases, calls |-> ArgLists({mwPass, plugHandler, plugBoth}, MaxArgs),
     terms |-> Terminals, finals |-> {FinalHandler}, maxRegs |-> MaxRegs]

\* Callers that register and run the request phase from two goroutines.
ConcurrentCallers ==
    [phases |-> {RequestPhase}, calls |-> ArgLists({mwPass}, MaxArgs),
     terms |-> Terminals, finals |-> {FinalHandler}, maxRegs |-> MaxRegs]

Priorities == 0 .. MaxPriority
Normal == 1

(***************************************************************************)
(* adapter.go                                                              *)
(***************************************************************************)
\* The MiddlewareFunc built for a handler value.  "uses" tells whether the
\* handler it returns holds the downstream handler it was given.
adaptPassThrough(h) == [name |-> h.name, reg |-> 0, beh |-> h.beh, uses |-> TRUE]
adaptMiddlewareHandlerFunc(h) == [name |-> h.name, reg |-> 0, beh |-> h.beh, uses |-> TRUE]
adaptHandlerFuncNext(h) == [name |-> h.name, reg |-> 0, beh |-> h.beh, uses |-> TRUE]
adaptHandler(h) == [name |-> h.name, reg |-> 0, beh |-> h.beh, uses |-> TRUE]
\* Mutant: the wrapper calls fn and then serves the downstream handler.
adaptHandlerFunc_callsnext(h) == [name |-> h.name, reg |-> 0, beh |-> "pass", uses |-> TRUE]

adaptHandlerFunc(h) == [name |-> h.name, reg |-> 0, beh |-> h.beh, uses |-> FALSE]
adaptNativeHandler(h) == [name |-> h.name, reg |-> 0, beh |-> h.beh, uses |-> FALSE]

NilMiddleware == [name |-> "nil", reg |-> 0, beh |-> "nil", uses |-> FALSE]

AdaptFunc(h) ==
    CASE h.shape = "MiddlewareFunc"        -> adaptPassThrough(h)
      [] h.shape = "MiddlewareHandlerFunc" -> adaptMiddlewareHandlerFunc(h)
      [] h.shape = "HandlerFuncNext"       -> adaptHandlerFuncNext(h)
      [] h.shape = "HandlerFunc"           -> adaptHandlerFunc(h)
      [] h.shape = "httpHandler"           -> adaptNativeHandler(h)
      [] h.shape = "Handler"               -> adaptHandler(h)
      [] OTHER                             -> NilMiddleware

\* mw(h): the handler a MiddlewareFunc returns for the downstream handler h.
Apply(mw, h) ==
    LET node == [name |-> mw.name, reg |-> mw.reg, beh |-> mw.beh]
    IN  IF mw.uses THEN <<node>> \o h ELSE <<node>>

(***************************************************************************)
(* Stack: Push and Join.                                                   *)
(***************************************************************************)
EmptyStack == <<>>

Push(stack, priority, mw) == Append(stack, [prio |-> priority, mw |-> mw])

RECURSIVE JoinFrom(_, _)
JoinFrom(stack, p) ==
    IF p > MaxPriority THEN <<>>
    ELSE LET level == SelectSeq(stack, LAMBDA e : e.prio = p)
         IN  [i \in 1 .. Len(level) |-> level[i].mw] \o JoinFrom(stack, p + 1)

Join(stack) == JoinFrom(stack, 0)

(***************************************************************************)
(* Serving a handler: h.ServeHTTP(w, r).                                   *)
(***************************************************************************)
Start(n) == [ev |-> "start", name |-> n.name, reg |-> n.reg]
Fault(n) == [ev |-> "fault", name |-> n.name, reg |-> n.reg]

\* The events of serving h (handlers entered, and the panic if one is raised), the
\* panic value that leaves h, and the position in h of the node that raised it.
RECURSIVE Serve(_)
Serve(h) ==
    IF h = NilHandler
    THEN [events |-> <<[ev |-> "fault", name |-> "nil", reg |-> 0]>>,
          fault |-> "nil pointer dereference", at |-> 0]
    ELSE
    LET n == Head(h)
        d == Serve(Tail(h))
        below == [events |-> <<Start(n)>> \o d.events, fault |-> d.fault,
                  at |-> IF d.fault = None THEN 0 ELSE d.at + 1]
        raised == [events |-> <<Start(n), Fault(n)>>, fault |-> n.name, at |-> 1]
    IN  CASE n.beh = "stop"  -> [events |-> <<Start(n)>>, fault |-> None, at |-> 0]
          [] n.beh = "fault" -> raised
          [] n.beh = "pass"  -> below
          [] OTHER           ->
                IF d.fault # None THEN below
                ELSE [events |-> below.events \o <<Fault(n)>>, fault |-> n.name, at |-> 1]

\* The handlers entered, in order.
Started(events) ==
    LET s == SelectSeq(events, LAMBDA e : e.ev = "start")
    IN  [i \in 1 .. Len(s) |-> [name |-> s[i].name, reg |-> s[i].reg]]


(***************************************************************************)
(* layer.go: registration.                                                 *)
(***************************************************************************)
\* m[k] = v on a Go map: the key is created when absent.
MapSet(m, k, v) == [x \in DOMAIN m \cup {k} |-> IF x = k THEN v ELSE m[x]]

EmptyMap == [x \in {} |-> NilHandler]

\* New(): an empty Pool, an empty memo, the package's FinalHandler.
New == [Pool |-> EmptyMap, memo |-> EmptyMap, finalHandler |-> FinalHandler]

\* What a registration call leaves: the Pool, the memo, the next identity, the
\* panic that left it, and the values whose Register method was called, in order.
Registered(pool, mem, reg, panic, registers) ==
    [Pool |-> pool, memo |-> mem, nextReg |-> reg, panic |-> panic,
     registers |-> registers]

\* handler.(Registrable): the value has a Register method.  "register" holds what
\* that method does with the Layer it is given: a list of Use calls.
IsRegistrable(handler) == "register" \in DOMAIN handler

RECURSIVE use(_, _, _, _, _, _)
RECURSIVE registerEach(_, _, _, _, _, _)
RECURSIVE register(_, _, _, _, _, _)
RECURSIVE Register(_, _, _, _)

\* r.Register(layer): the Use calls of the method, in order, on the Layer; a panic
\* of one of them leaves the method.
Register(calls, pool, mem, reg) ==
    IF calls = <<>> THEN Registered(pool, mem, reg, None, <<>>)
    ELSE LET c == Head(calls)
             u == use(pool, mem, reg, c.phase, Normal, c.args)
         IN  IF u.panic # None THEN u
             ELSE LET rest == Register(Tail(calls), u.Pool, u.memo, u.nextReg)
                  IN  [rest EXCEPT !.registers = u.registers \o @]

\* Mutant: an unsupported value is skipped and the call goes on.
register_skip(pool, mem, reg, phase, priority, handler) ==
    IF IsRegistrable(handler)
    THEN LET r == Register(handler.register, pool, mem, reg)
         IN  [r EXCEPT !.registers = <<handler.name>> \o @]
    ELSE LET mw == AdaptFunc(handler)
         IN  IF mw = NilMiddleware
             THEN Registered(pool, mem, reg, None, <<>>)
             ELSE Registered(
                     [pool EXCEPT ![phase] = Push(@, priority, [mw EXCEPT !.reg = reg])],
                     mem, reg + 1, None, <<>>)

\* Mutant: the adapter is tried before the Registrable interface.
register_adaptfirst(pool, mem, reg, phase, priority, handler) ==
    LET mw == AdaptFunc(handler)
    IN  IF mw # NilMiddleware
        THEN Registered(
                [pool EXCEPT ![phase] = Push(@, priority, [mw EXCEPT !.reg = reg])],
                mem, reg + 1, None, <<>>)
        ELSE IF IsRegistrable(handler)
        THEN LET r == Register(handler.register, pool, mem, reg)
             IN  [r EXCEPT !.registers = <<handler.name>> \o @]
        ELSE Registered(pool, mem, reg, "vinxi: unsupported middleware interface", <<>>)

\* register(layer, stack, priority, handler): calls the Register method of a
\* Registrable and returns; otherwise pushes the adapted handler into the stack of
\* the phase, or panics when AdaptFunc returns nil.
register(pool, mem, reg, phase, priority, handler) ==
    IF IsRegistrable(handler)
    THEN LET r == Register(handler.register, pool, mem, reg)
         IN  [r EXCEPT !.registers = <<handler.name>> \o @]
    ELSE LET mw == AdaptFunc(handler)
         IN  IF mw = NilMiddleware
             THEN Registered(pool, mem, reg, "vinxi: unsupported middleware interface",
                             <<>>)
             ELSE Registered(
                     [pool EXCEPT ![phase] = Push(@, priority, [mw EXCEPT !.reg = reg])],
                     mem, reg + 1, None, <<>>)

\* for _, h := range handler { register(s, stack, priority, h) }
registerEach(pool, mem, reg, phase, priority, handlers) ==
    IF handlers = <<>> THEN Registered(pool, mem, reg, None, <<>>)
    ELSE LET r == register(pool, mem, reg, phase, priority, Head(handlers))
         IN  IF r.panic # None THEN r
             ELSE LET rest == registerEach(r.Pool, r.memo, r.nextReg, phase, priority,
                                           Tail(handlers))
                  IN  [rest EXCEPT !.registers = r.registers \o @]

\* Mutant: the call works on a copy and installs it only when no handler was
\* refused.
use_atomic(pool, mem, reg, phase, priority, handlers) ==
    LET mem1 == MapSet(mem, phase, NilHandler)
        pool1 == IF phase \in DOMAIN pool THEN pool ELSE MapSet(pool, phase, EmptyStack)
        r == registerEach(pool1, mem1, reg, phase, priority, handlers)
    IN  IF r.panic # None THEN Registered(pool, mem, reg, r.panic, r.registers) ELSE r

\* Mutant: the call clears the memo entries of all the phases.
use_resetall(pool, mem, reg, phase, priority, handlers) ==
    LET mem1 == [x \in DOMAIN mem \cup {phase} |-> NilHandler]
        pool1 == IF phase \in DOMAIN pool THEN pool ELSE MapSet(pool, phase, EmptyStack)
    IN  registerEach(pool1, mem1, reg, phase, priority, handlers)

\* Layer.use: clears the memo entry of the phase, creates the stack of the phase
\* when it has none, registers the handlers in order.
use(pool, mem, reg, phase, priority, handlers) ==
    LET mem1 == MapSet(mem, phase, NilHandler)
        pool1 == IF phase \in DOMAIN pool THEN pool ELSE MapSet(pool, phase, EmptyStack)
    IN  registerEach(pool1, mem1, reg, phase, priority, handlers)

(***************************************************************************)
(* layer.go: Run.                                                          *)
(***************************************************************************)
\* Mutant: the memo is consulted as its comment intends (ok && h != nil).
MemoHit_live(ok, h) == ok /\ h # NilHandler

\* h, ok := s.memo[phase]; !ok && h != nil
MemoHit(ok, h) == ~ok /\ h # NilHandler

\* Mutant: the loop starts at len(queue) - 2 and leaves the last handler out.
RECURSIVE Compose_skiplast_from(_, _)
Compose_skiplast_from(queue, h) ==
    IF queue = <<>> THEN h
    ELSE Compose_skiplast_from(SubSeq(queue, 1, Len(queue) - 1),
                               Apply(queue[Len(queue)], h))

Compose_skiplast(queue, h) ==
    IF queue = <<>> THEN h
    ELSE Compose_skiplast_from(SubSeq(queue, 1, Len(queue) - 1), h)

\* Mutant: the loop runs from the first handler to the last, so that the last
\* handler of the queue is the outermost.
RECURSIVE Compose_forward(_, _)
Compose_forward(queue, h) ==
    IF queue = <<>> THEN h
    ELSE Compose_forward(Tail(queue), Apply(Head(queue), h))

\* for i := len(queue) - 1; i >= 0; i-- { h = queue[i](h) }
RECURSIVE Compose(_, _)
Compose(queue, h) ==
    IF queue = <<>> THEN h
    ELSE Compose(SubSeq(queue, 1, Len(queue) - 1), Apply(queue[Len(queue)], h))

\* Mutant: the memo is consulted as intended, and the handler is memoized before
\* the loop has wrapped it.
RunBody_early(pool, mem, fh, phase, h) ==
    LET ok == phase \in DOMAIN mem
        m == IF ok THEN mem[phase] ELSE NilHandler
        h1 == IF h = NilHandler THEN fh ELSE h
        composed == Compose(Join(pool[phase]), h1)
        result(chain, mem2, joined) ==
            LET s == Serve(chain)
            IN  [memo |-> mem2, chain |-> chain, events |-> s.events,
                 fault |-> s.fault, at |-> s.at, joined |-> joined]
    IN  IF ok /\ m # NilHandler THEN result(m, mem, FALSE)
        ELSE IF phase \notin DOMAIN pool THEN result(h1, mem, FALSE)
        ELSE result(composed, MapSet(mem, phase, h1), TRUE)

\* The body of Run, without its deferred function: the handler it serves, what
\* serving it does, the memo it leaves, and whether it called Join and composed.
RunBody(pool, mem, fh, phase, h) ==
    LET ok == phase \in DOMAIN mem
        m == IF ok THEN mem[phase] ELSE NilHandler
        h1 == IF h = NilHandler THEN fh ELSE h
        composed == Compose(Join(pool[phase]), h1)
        result(chain, mem2, joined) ==
            LET s == Serve(chain)
            IN  [memo |-> mem2, chain |-> chain, events |-> s.events,
                 fault |-> s.fault, at |-> s.at, joined |-> joined]
    IN  IF MemoHit(ok, m) THEN result(m, mem, FALSE)
        ELSE IF phase \notin DOMAIN pool THEN result(h1, mem, FALSE)
        ELSE result(composed, MapSet(mem, phase, composed), TRUE)

\* The deferred function of Run: it returns at once for the error phase, leaving
\* the panic to unwind; for any other phase it recovers the panic.
Recovered(phase, fault) == phase # ErrorPhase /\ fault # None

\* Mutant: recover() is called before the phase is tested, so that a panic of the
\* error phase is swallowed.
Unrecovered_swallow(phase, fault) == None

\* The panic that goes on unwinding when the deferred function returns without
\* having called recover.
Unrecovered(phase, fault) == fault

\* Mutant: the recovered value is not stored.
ContextSet_drop(re) == None

\* context.Set(r, "error", re)
ContextSet(re) == re

\* Mutant: the deferred function runs the phase again.
RedirectPhase_retry(phase) == phase

\* Mutant: the deferred function hands on the terminal of its caller.
RedirectTerminal_caller(h) == h

\* s.Run("error", w, r, FinalErrorHandler): the phase and terminal of the redirect.
RedirectPhase(phase) == ErrorPhase
RedirectTerminal(h) == FinalErrorHandler

\* The Run the deferred function calls.  It is a Run of the error phase, whose own
\* deferred function returns at once: its body, and the panic left unwinding.
Redirect(pool, mem, fh, phase, h) ==
    LET b == RunBody(pool, mem, fh, phase, h)
    IN  [memo |-> b.memo, chain |-> b.chain, events |-> b.events, fault |-> b.fault,
         panic |-> Unrecovered(phase, b.fault)]

Run(pool, mem, fh, phase, h) ==
    LET b == RunBody(pool, mem, fh, phase, h)
    IN  IF Recovered(phase, b.fault)
        THEN LET e == Redirect(pool, b.memo, fh, RedirectPhase(phase), RedirectTerminal(h))
             IN  [memo |-> e.memo, chain |-> b.chain, events |-> b.events,
                  fault |-> b.fault, at |-> b.at, joined |-> b.joined,
                  ctx |-> ContextSet(b.fault),
                  errStarts |-> 1, errChain |-> e.chain,
                  errEvents |-> e.events, errFault |-> e.fault, panic |-> e.panic]
        ELSE [memo |-> b.memo, chain |-> b.chain, events |-> b.events,
              fault |-> b.fault, at |-> b.at, joined |-> b.joined, ctx |-> None,
              errStarts |-> 0, errChain |-> NilHandler,
              errEvents |-> <<>>, errFault |-> None,
              panic |-> Unrecovered(phase, b.fault)]

(***************************************************************************)
(* The calls made on the Layer.                                            *)
(***************************************************************************)
\* What "last" holds after a call that is not a Run.
Call(op, phase, panic, regs, afterRun) ==
    [op |-> op, phase |-> phase, priority |-> 0, args |-> <<>>,
     term |-> NilHandler, compiled |-> FALSE, stale |-> FALSE, joined |-> FALSE,
     registers |-> <<>>,
     chain |-> NilHandler, events |-> <<>>, fault |-> None, at |-> 0, ctx |-> None,
     errStarts |-> 0, errChain |-> NilHandler, errEvents |-> <<>>, errFault |-> None,
     panic |-> panic, regs |-> regs, afterRun |-> afterRun, again |-> FALSE]

\* No call in progress: the position of the goroutine that registers and of the
\* goroutine that runs, with the arguments and local variables of their calls.
IdleUse == [pc |-> "idle", phase |-> "", priority |-> 0, args |-> <<>>, i |-> 0]
IdleRun == [pc |-> "idle", phase |-> "", h |-> NilHandler, chain |-> NilHandler]
NoCalls == [use |-> IdleUse, run |-> IdleRun]

InitLayer ==
    /\ Pool = New.Pool
    /\ memo = New.memo
    /\ finalHandler = New.finalHandler
    /\ nextReg = 1
    /\ last = Call("New", "", None, {}, FALSE)
    /\ inflight = NoCalls

Init == InitLayer /\ env = Callers

\* A call of Use or UsePriority.  Each handler value pushed into a stack gets an
\* identity of its own, nextReg, so that two registrations of one function are told
\* apart in the chains and in what was executed.
Registration(op, phase, priority, args) ==
    \E r \in {use(Pool, memo, nextReg, phase, priority, args)} :
        /\ r.nextReg - 1 <= env.maxRegs
        /\ Pool' = r.Pool
        /\ memo' = r.memo
        /\ nextReg' = r.nextReg
        /\ last' = [Call(op, phase, r.panic, nextReg .. r.nextReg - 1,
                         last.op = "Run" /\ last.phase = phase)
                        EXCEPT !.priority = priority, !.args = args,
                               !.registers = r.registers]
        /\ UNCHANGED <<finalHandler, env, inflight>>

Use(phase, args) == Registration("Use", phase, Normal, args)

UsePriority(phase, priority, args) == Registration("UsePriority", phase, priority, args)

\* "last" keeps the phase of the Run the call follows, when that Run was given no
\* terminal and ended in another final handler than fn.
UseFinalHandler(fn) ==
    LET follows == last.op = "Run" /\ last.term = NilHandler /\ fn # finalHandler
    IN
    /\ finalHandler' = fn
    /\ last' = Call("UseFinalHandler", IF follows THEN last.phase ELSE "", None, {},
                    follows)
    /\ UNCHANGED <<Pool, memo, nextReg, env, inflight>>

Flush ==
    /\ Pool' = EmptyMap
    /\ last' = Call("Flush", "", None, {}, FALSE)
    /\ UNCHANGED <<memo, finalHandler, nextReg, env, inflight>>

DoRun(phase, h) ==
    \E r \in {Run(Pool, memo, finalHandler, phase, h)} :
        /\ memo' = r.memo
        /\ last' = [op |-> "Run", phase |-> phase, priority |-> 0, args |-> <<>>,
                    term |-> h,
                    compiled |-> phase \in DOMAIN memo /\ memo[phase] # NilHandler,
                    stale |-> phase \in DOMAIN memo /\ memo[phase] \notin {NilHandler, r.chain},
                    joined |-> r.joined, registers |-> <<>>,
                    chain |-> r.chain, events |-> r.events, fault |-> r.fault,
                    at |-> r.at, ctx |-> r.ctx, errStarts |-> r.errStarts,
                    errChain |-> r.errChain, errEvents |-> r.errEvents,
                    errFault |-> r.errFault, panic |-> r.panic,
                    regs |-> IF last.op \in {"Use", "UsePriority"} /\ last.phase = phase
                                   /\ last.afterRun
                             THEN last.regs ELSE {},
                    afterRun |-> /\ last.op = "UseFinalHandler" /\ last.afterRun
                                 /\ last.phase = phase /\ h = NilHandler,
                    again |-> last.op = "Run" /\ last.phase = phase /\ last.term = h]
        /\ UNCHANGED <<Pool, finalHandler, nextReg, env, inflight>>

Next ==
    \/ \E phase \in env.phases, args \in env.calls : Use(phase, args)
    \/ \E phase \in env.phases, priority \in Priorities, args \in env.calls :
          UsePriority(phase, priority, args)
    \/ \E fn \in env.finals : UseFinalHandler(fn)
    \/ Flush
    \/ \E phase \in env.phases, h \in env.terms : DoRun(phase, h)

Spec == Init /\ [][Next]_vars

InitOrder == InitLayer /\ env = OrderCallers

SpecOrder == InitOrder /\ [][Next]_vars

InitFrame == InitLayer /\ env = FrameCallers

SpecFrame == InitFrame /\ [][Next]_vars

InitPlugin == InitLayer /\ env = PluginCallers

SpecPlugin == InitPlugin /\ [][Next]_vars

InitAbort == InitLayer /\ env = AbortCallers

(***************************************************************************)
(* Use / UsePriority and Run called from two goroutines.  The Layer has no *)
(* lock: the statements of Layer.use and of Layer.Run on s.memo and s.Pool *)
(* interleave.  Each step below is one of those statements.  s.memo and    *)
(* s.Pool are Go maps: when a write of one goroutine and an access of the  *)
(* other to the same map are both about to happen, the accesses race, and  *)
(* the outcome is any of: one statement takes effect before the other (the *)
(* steps below, in either order), the runtime aborts the process with a    *)
(* fatal error that no recover catches (RaceAbort), or the map is left     *)
(* corrupted (RaceCorrupt), after which nothing is defined.  The handlers  *)
(* of these callers do not panic, so the deferred function of Run has      *)
(* nothing to recover.                                                     *)
(***************************************************************************)
\* Push and Join of a Stack are each taken as one step: the Stack is modelled from
\* its specification, which says nothing of how its memory is laid out.

\* A goroutine calls s.use(phase, priority, handler...).
StartUse(phase, priority, args) ==
    /\ inflight.use.pc = "idle"
    /\ nextReg + Len(args) - 1 <= env.maxRegs
    /\ inflight' = [inflight EXCEPT !.use =
                        [pc |-> "memo", phase |-> phase, priority |-> priority,
                         args |-> args, i |-> 1]]
    /\ UNCHANGED <<Pool, memo, finalHandler, nextReg, last, env>>

\* s.memo[phase] = nil
UseClearMemo ==
    /\ inflight.use.pc = "memo"
    /\ memo' = MapSet(memo, inflight.use.phase, NilHandler)
    /\ inflight' = [inflight EXCEPT !.use.pc = "stack"]
    /\ UNCHANGED <<Pool, finalHandler, nextReg, last, env>>

\* if s.Pool[phase] == nil { s.Pool[phase] = &Stack{} }; stack := s.Pool[phase]
UseMakeStack ==
    /\ inflight.use.pc = "stack"
    /\ Pool' = IF inflight.use.phase \in DOMAIN Pool THEN Pool
               ELSE MapSet(Pool, inflight.use.phase, EmptyStack)
    /\ inflight' = [inflight EXCEPT !.use.pc = "push"]
    /\ UNCHANGED <<memo, finalHandler, nextReg, last, env>>

\* register(s, stack, priority, h), for the next handler of the call.
UsePush ==
    /\ inflight.use.pc = "push"
    /\ inflight.use.i <= Len(inflight.use.args)
    /\ \E r \in {register(Pool, memo, nextReg, inflight.use.phase,
                           inflight.use.priority,
                           inflight.use.args[inflight.use.i])} :
          /\ Pool' = r.Pool
          /\ memo' = r.memo
          /\ nextReg' = r.nextReg
          /\ inflight' = [inflight EXCEPT !.use.i = @ + 1]
    /\ UNCHANGED <<finalHandler, last, env>>

\* return s
UseReturn ==
    /\ inflight.use.pc = "push"
    /\ inflight.use.i > Len(inflight.use.args)
    /\ last' = [Call("Use", inflight.use.phase, None, {}, FALSE)
                    EXCEPT !.priority = inflight.use.priority,
                           !.args = inflight.use.args]
    /\ inflight' = [inflight EXCEPT !.use = IdleUse]
    /\ UNCHANGED <<Pool, memo, finalHandler, nextReg, env>>

\* A goroutine calls s.Run(phase, w, r, h).
StartRun(phase, h) ==
    /\ inflight.run.pc = "idle"
    /\ inflight' = [inflight EXCEPT !.run =
                        [pc |-> "memo", phase |-> phase, h |-> h, chain |-> NilHandler]]
    /\ UNCHANGED <<Pool, memo, finalHandler, nextReg, last, env>>

\* The test of the memo, and the default terminal: if h == nil { h = s.finalHandler }
RunReadMemo ==
    /\ inflight.run.pc = "memo"
    /\ LET ok == inflight.run.phase \in DOMAIN memo
           m == IF ok THEN memo[inflight.run.phase] ELSE NilHandler
       IN  inflight' =
             IF MemoHit(ok, m)
             THEN [inflight EXCEPT !.run.pc = "serve", !.run.chain = m]
             ELSE [inflight EXCEPT !.run.pc = "lookup",
                                   !.run.h = IF @ = NilHandler THEN finalHandler ELSE @]
    /\ UNCHANGED <<Pool, memo, finalHandler, nextReg, last, env>>

\* stack := s.Pool[phase]; if stack == nil { h.ServeHTTP(w, r); return }
RunLookup ==
    /\ inflight.run.pc = "lookup"
    /\ inflight' =
          IF inflight.run.phase \in DOMAIN Pool
          THEN [inflight EXCEPT !.run.pc = "join"]
          ELSE [inflight EXCEPT !.run.pc = "serve", !.run.chain = inflight.run.h]
    /\ UNCHANGED <<Pool, memo, finalHandler, nextReg, last, env>>

\* queue := stack.Join(), and the loop that composes the chain.
RunJoin ==
    /\ inflight.run.pc = "join"
    /\ inflight' = [inflight EXCEPT
                        !.run.pc = "store",
                        !.run.chain = Compose(Join(Pool[inflight.run.phase]),
                                              inflight.run.h)]
    /\ UNCHANGED <<Pool, memo, finalHandler, nextReg, last, env>>

\* s.memo[phase] = h
RunStore ==
    /\ inflight.run.pc = "store"
    /\ memo' = MapSet(memo, inflight.run.phase, inflight.run.chain)
    /\ inflight' = [inflight EXCEPT !.run.pc = "serve"]
    /\ UNCHANGED <<Pool, finalHandler, nextReg, last, env>>

\* h.ServeHTTP(w, r), and the return of Run.
RunServe ==
    /\ inflight.run.pc = "serve"
    /\ \E s \in {Serve(inflight.run.chain)} :
          last' = [Call("Run", inflight.run.phase, s.fault, {}, FALSE)
                      EXCEPT !.chain = inflight.run.chain, !.events = s.events,
                             !.fault = s.fault, !.at = s.at]
    /\ inflight' = [inflight EXCEPT !.run = IdleRun]
    /\ UNCHANGED <<Pool, memo, finalHandler, nextReg, env>>

\* The next statements of the two goroutines both write s.memo: s.memo[phase] = nil
\* of use and s.memo[phase] = h of Run.
MemoWriteWrite == inflight.use.pc = "memo" /\ inflight.run.pc = "store"

\* The next statement of use writes s.memo and the next statement of Run reads it.
MemoReadWrite == inflight.use.pc = "memo" /\ inflight.run.pc = "memo"

\* The next statement of use writes s.Pool (the phase has no stack) and the next
\* statement of Run reads it.
PoolReadWrite ==
    /\ inflight.use.pc = "stack"
    /\ inflight.use.phase \notin DOMAIN Pool
    /\ inflight.run.pc = "lookup"

\* What the runtime prints when it detects the racing map accesses.
FatalError ==
    IF MemoWriteWrite THEN "fatal error: concurrent map writes"
    ELSE "fatal error: concurrent map read and map write"

\* The process has ended, or its memory is no longer what the program wrote:
\* neither call takes a further step.
Stopped(pc) ==
    [use |-> [inflight.use EXCEPT !.pc = pc], run |-> [inflight.run EXCEPT !.pc = pc]]

\* The runtime detects the racing accesses and aborts the process.
RaceAbort ==
    /\ MemoWriteWrite \/ MemoReadWrite \/ PoolReadWrite
    /\ inflight' = Stopped("aborted")
    /\ last' = Call("fatal", "", FatalError, {}, FALSE)
    /\ UNCHANGED <<Pool, memo, finalHandler, nextReg, env>>

\* The racing accesses go undetected and leave the map corrupted.
RaceCorrupt ==
    /\ MemoWriteWrite \/ MemoReadWrite \/ PoolReadWrite
    /\ inflight' = Stopped("corrupted")
    /\ last' = Call("corrupted", "", None, {}, FALSE)
    /\ UNCHANGED <<Pool, memo, finalHandler, nextReg, env>>

NextConcurrent ==
    \/ \E phase \in env.phases, priority \in Priorities, args \in env.calls :
          StartUse(phase, priority, args)
    \/ UseClearMemo
    \/ UseMakeStack
    \/ UsePush
    \/ UseReturn
    \/ \E phase \in env.phases, h \in env.terms : StartRun(phase, h)
    \/ RunReadMemo
    \/ RunLookup
    \/ RunJoin
    \/ RunStore
    \/ RunServe
    \/ RaceAbort
    \/ RaceCorrupt

InitConcurrent == InitLayer /\ env = ConcurrentCallers

SpecConcurrent == InitConcurrent /\ [][NextConcurrent]_vars

SpecAbort == InitAbort /\ [][Next]_vars

(***************************************************************************)
(* What the properties speak of.                                           *)
(***************************************************************************)
IsRun == last.op = "Run"

\* The handlers the last Run entered in the chain of its phase, and in the
\* error phase it was redirected to.
Trace == Started(last.events)
ErrTrace == Started(last.errEvents)

Regs(nodes) == { nodes[i].reg : i \in 1 .. Len(nodes) } \ {0}

\* The ordered handlers of a phase, as registered now.
Queue(phase) == IF phase \in DOMAIN Pool THEN Join(Pool[phase]) ELSE <<>>

\* The terminal of the last Run: its argument, or the final handler of the Layer.
TerminalOfRun == IF last.term = NilHandler THEN finalHandler ELSE last.term

\* The handler at position k of a queue calls its downstream when it is entered.
CallsDownstream(mw) == mw.uses /\ mw.beh \in {"pass", "passfault"}

Reached(queue, k) == \A j \in 1 .. k - 1 : CallsDownstream(queue[j])

NoDuplicate(nodes) ==
    \A i, j \in 1 .. Len(nodes) : nodes[i] = nodes[j] => i = j

(***************************************************************************)
(* C1.  Registration after a Run and the next Run.                         *)
(***************************************************************************)
\* C1 as stated: when handlers were registered into phase P right after a Run of P,
\* the next Run of P executes each of them (last.regs are those handlers), and no
\* Run executes a handler that is registered only later.
C1_NextRunExecutesNew ==
    IsRun =>
        /\ last.regs \subseteq Regs(Trace)
        /\ \A g \in Regs(Trace) : g < nextReg

\* C1 amended: the Run of P composes its chain from the whole stack of P as it is
\* now, so that every registered handler, the newly registered ones included, is
\* executed when every handler ordered before it calls its downstream; and a Run
\* executes only handlers that were in the stack of P when it ran, hence none
\* that is registered later.
C1_NextRunComposesNew ==
    IsRun =>
        LET queue == Queue(last.phase)
        IN  /\ \A k \in 1 .. Len(queue) :
                   Reached(queue, k) => queue[k].reg \in Regs(Trace)
            /\ \A g \in Regs(Trace) :
                   g < nextReg /\ \E k \in 1 .. Len(queue) : queue[k].reg = g

\* A Run of P that follows a Run of P and a registration into P, and executes the
\* handlers of that registration after an older one.
C1_Witness ==
    /\ IsRun
    /\ last.regs # {}
    /\ last.regs \subseteq Regs(Trace)
    /\ Regs(Trace) # last.regs

(***************************************************************************)
(* C2.  A handler of a non-error phase panics.                             *)
(***************************************************************************)
\* The last Run was of a non-error phase and a registered handler, at position
\* last.at of the chain, raised a panic.
HandlerFaulted ==
    /\ IsRun
    /\ last.phase # ErrorPhase
    /\ last.fault # None
    /\ last.at >= 1
    /\ last.chain[last.at].reg > 0

\* C2 as stated: no handler after the position of the panic (nor the terminal) is
\* executed, the panic value is stored under "error", the error phase is run.
C2_NothingAfterFaulter ==
    HandlerFaulted =>
        /\ Len(Trace) = last.at
        /\ last.ctx = last.fault
        /\ last.errStarts = 1

\* C2 amended: nothing of the chain is entered once the panic is raised (the panic
\* is the last event of the chain); the handlers after position i were entered
\* only if the handler at i called its downstream before it panicked, and none
\* was when it panicked without calling it; the panic value is stored under
\* "error" and the error phase is run.
C2_NothingAfterFault ==
    HandlerFaulted =>
        LET n == last.chain[last.at]
            ev == last.events
        IN  /\ ev[Len(ev)] = Fault(n)
            /\ \A i \in 1 .. Len(ev) - 1 : ev[i].ev = "start"
            /\ n.beh = "fault" => Len(Trace) = last.at
            /\ Len(Trace) > last.at => n.beh = "passfault"
            /\ last.ctx = last.fault
            /\ last.errStarts = 1
            /\ Len(ErrTrace) >= 1

\* A handler panics in the middle of a chain, before calling its downstream, and
\* a handler of the error phase runs.
C2_Witness ==
    /\ HandlerFaulted
    /\ last.chain[last.at].beh = "fault"
    /\ last.at < Len(last.chain)
    /\ Len(Trace) = last.at
    /\ Regs(ErrTrace) # {}

(***************************************************************************)
(* C3.  The terminal of the redirect.                                      *)
(***************************************************************************)
\* C3: when a non-error phase panics and the error phase has no handler, the
\* redirect executes FinalErrorHandler, once, and nothing else: neither the
\* terminal of the caller nor the final handler of the Layer.
C3_RedirectEndsInFinalErrorHandler ==
    (IsRun /\ last.phase # ErrorPhase /\ last.fault # None
           /\ Queue(ErrorPhase) = <<>>) =>
        /\ last.errStarts = 1
        /\ last.errChain = FinalErrorHandler
        /\ ErrTrace = Started(<<Start(FinalErrorHandler[1])>>)
        /\ \A i \in 1 .. Len(Trace) : Trace[i].name # FinalErrorHandler[1].name

\* A Run with a terminal of its caller panics, the Layer has a final handler of
\* its own, and the error phase has no handler.
C3_Witness ==
    /\ IsRun /\ last.phase # ErrorPhase /\ last.fault # None
    /\ Queue(ErrorPhase) = <<>>
    /\ last.term # NilHandler
    /\ finalHandler # FinalHandler
    /\ ErrTrace = Started(<<Start(FinalErrorHandler[1])>>)

(***************************************************************************)
(* C4.  A panic of the error phase.                                        *)
(***************************************************************************)
\* C4: a panic raised while the error phase executes leaves Run, for a direct Run
\* of the error phase (nothing is stored, nothing is redirected) and for the
\* error phase entered by the redirect (which is not run a second time).
C4_ErrorPhaseFaultPropagates ==
    IsRun =>
        /\ (last.phase = ErrorPhase /\ last.fault # None) =>
               /\ last.panic = last.fault
               /\ last.errStarts = 0
               /\ last.ctx = None
        /\ (last.phase # ErrorPhase /\ last.errFault # None) =>
               /\ last.panic = last.errFault
               /\ last.errStarts = 1

\* The error phase, entered by the redirect, panics and the panic leaves Run.
C4_Witness ==
    /\ IsRun
    /\ last.phase # ErrorPhase
    /\ last.errFault # None
    /\ last.panic = last.errFault

\* A direct Run of the error phase panics and the panic leaves Run.
C4_WitnessDirect ==
    /\ IsRun
    /\ last.phase = ErrorPhase
    /\ last.fault # None
    /\ last.panic = last.fault

(***************************************************************************)
(* C5.  One redirect, no retry.                                            *)
(***************************************************************************)
\* C5: in one Run of a non-error phase the error phase is started at most once,
\* it runs handlers of the error phase only, and no handler is entered twice.
C5_RedirectOnceNoRetry ==
    (IsRun /\ last.phase # ErrorPhase) =>
        /\ last.errStarts <= 1
        /\ NoDuplicate(Trace \o ErrTrace)
        /\ Regs(ErrTrace) \subseteq Regs(Queue(ErrorPhase))
        /\ Regs(Trace) \subseteq Regs(Queue(last.phase))

\* A handler of the phase panics and a handler of the error phase runs.
C5_Witness ==
    /\ IsRun /\ last.phase # ErrorPhase
    /\ last.errStarts = 1
    /\ Regs(Trace) # {}
    /\ Regs(ErrTrace) # {}

(***************************************************************************)
(* C6.  Run on a phase without handlers.                                   *)
(***************************************************************************)
\* C6: a Run on a phase that has no stack, or a stack without handlers, executes
\* one handler and no other: the terminal of its caller, or the current final
\* handler of the Layer when the caller passed none.
C6_EmptyPhaseRunsTerminalOnly ==
    (IsRun /\ Queue(last.phase) = <<>>) =>
        /\ last.chain = TerminalOfRun
        /\ Trace = Started(<<Start(TerminalOfRun[1])>>)
        /\ ErrTrace = <<>>
        /\ last.panic = None

\* A Run without terminal on a phase that has no stack any more, while the memo
\* still holds the chain compiled for it, under a final handler set by the caller.
C6_Witness ==
    /\ IsRun
    /\ last.phase \notin DOMAIN Pool
    /\ last.stale
    /\ last.term = NilHandler
    /\ finalHandler # FinalHandler
    /\ Trace = Started(<<Start(finalHandler[1])>>)

\* A Run with a terminal on a phase whose stack exists and holds no handler.
C6_WitnessEmptyStack ==
    /\ IsRun
    /\ last.phase \in DOMAIN Pool
    /\ Pool[last.phase] = EmptyStack
    /\ last.term # NilHandler
    /\ Trace = Started(<<Start(last.term[1])>>)

(***************************************************************************)
(* C7.  Run after Flush.                                                   *)
(***************************************************************************)
\* What a Layer without registrations, with the same final handler, does on the
\* last Run.
FreshRun == Run(New.Pool, New.memo, finalHandler, last.phase, last.term)

\* C7: a Run on a Layer whose Pool was flushed (and nothing registered since) does
\* what it does on a Layer without registrations: the terminal alone executes,
\* none of the handlers registered before does.
C7_RunAfterFlushIsFresh ==
    (IsRun /\ DOMAIN Pool = {}) =>
        /\ last.chain = FreshRun.chain
        /\ last.events = FreshRun.events
        /\ last.errEvents = FreshRun.errEvents
        /\ last.ctx = FreshRun.ctx
        /\ last.panic = FreshRun.panic
        /\ Trace = Started(<<Start(TerminalOfRun[1])>>)
        /\ Regs(Trace) \cup Regs(ErrTrace) = {}

\* A Run on a flushed Layer, of a phase that was populated, run and memoized
\* before the Flush.
C7_Witness ==
    /\ IsRun
    /\ DOMAIN Pool = {}
    /\ last.phase \in DOMAIN memo
    /\ Regs(memo[last.phase]) # {}
    /\ Len(Trace) = 1

(***************************************************************************)
(* C8.  What Flush clears.                                                 *)
(***************************************************************************)
\* C8: Flush leaves no phase and no stack in the Pool, leaves no memoized chain
\* for any phase, and leaves the final handler as it was.
C8_FlushClearsPoolAndMemo ==
    [][ last'.op = "Flush" =>
          /\ DOMAIN Pool' = {}
          /\ \A p \in DOMAIN memo' : memo'[p] = NilHandler
          /\ finalHandler' = finalHandler ]_vars

(***************************************************************************)
(* C9.  The final handler in force.                                        *)
(***************************************************************************)
\* C9: a Run that is given no terminal and whose chain reaches its end ends in
\* the final handler the Layer has now (the one of the latest UseFinalHandler).
C9_RunEndsInCurrentFinalHandler ==
    (IsRun /\ last.term = NilHandler /\ Len(Trace) >= 1 /\ Trace[Len(Trace)].reg = 0) =>
        Trace[Len(Trace)] = Started(<<Start(finalHandler[1])>>)[1]

\* A phase is run to its end without terminal, the final handler is replaced,
\* and the phase, with no registration in between, is run again and ends in the
\* new final handler.
C9_Witness ==
    /\ IsRun
    /\ last.afterRun
    /\ last.stale
    /\ Regs(Trace) # {}
    /\ Trace[Len(Trace)] = Started(<<Start(finalHandler[1])>>)[1]

(***************************************************************************)
(* C10.  Two Runs in a row.                                                *)
(***************************************************************************)
\* What a Run did, as its caller and the request see it.
Outcome(l) ==
    [chain |-> l.chain, events |-> l.events, fault |-> l.fault, ctx |-> l.ctx,
     errChain |-> l.errChain, errEvents |-> l.errEvents, panic |-> l.panic]

\* C10: a Run that directly follows a Run of the same phase with the same
\* terminal executes the same handlers in the same order with the same result.
C10_RepeatedRunSameOutcome ==
    [][ (IsRun /\ last'.op = "Run" /\ last'.again) =>
            Outcome(last') = Outcome(last) ]_vars

\* The second of two Runs in a row of a phase with handlers, whose chain the
\* first Run memoized.
C10_Witness ==
    /\ IsRun
    /\ last.again
    /\ Regs(Trace) # {}
    /\ last.phase \in DOMAIN memo
    /\ memo[last.phase] = last.chain

(***************************************************************************)
(* C11.  An unsupported handler argument.                                  *)
(***************************************************************************)
UseOps == {"Use", "UsePriority"}

\* The value is no Registrable and AdaptFunc returns nil for it.
Unsupported(handler) == ~IsRegistrable(handler) /\ AdaptFunc(handler) = NilMiddleware

\* The position of the first unsupported value of args, 0 when there is none.
FirstUnsupported(args) ==
    IF \E i \in 1 .. Len(args) : Unsupported(args[i])
    THEN CHOOSE i \in 1 .. Len(args) :
            /\ Unsupported(args[i])
            /\ \A j \in 1 .. i - 1 : ~Unsupported(args[j])
    ELSE 0

\* C11: a Use / UsePriority call with an unsupported handler argument ends in the
\* panic of register, it does not return normally; and no stack ever holds an
\* entry made from an unsupported value.
C11_UnsupportedAborts ==
    /\ (last.op \in UseOps /\ FirstUnsupported(last.args) # 0) =>
            last.panic = "vinxi: unsupported middleware interface"
    /\ \A p \in DOMAIN Pool : \A i \in 1 .. Len(Pool[p]) :
            /\ Pool[p][i].mw # NilMiddleware
            /\ Pool[p][i].mw.name # strValue.name

\* A call whose second argument is unsupported, after a supported first one, has
\* panicked.
C11_Witness ==
    /\ last.op \in UseOps
    /\ Len(last.args) >= 2
    /\ FirstUnsupported(last.args) = 2
    /\ last.panic = "vinxi: unsupported middleware interface"

(***************************************************************************)
(* C19.  What an aborted registration leaves.                              *)
(***************************************************************************)
StackOf(pool, phase) == IF phase \in DOMAIN pool THEN pool[phase] ELSE EmptyStack

\* The stack entries made of the first n values of args, pushed with the given
\* priority and the identities from reg on.
Pushed(args, n, priority, reg) ==
    [i \in 1 .. n |->
        [prio |-> priority, mw |-> [AdaptFunc(args[i]) EXCEPT !.reg = reg + i - 1]]]

\* C19: when Use / UsePriority(P, h1..hn) panics on hk, the first unsupported
\* value, the stack of P is what it was with h1..h(k-1) appended in that order
\* and none of hk..hn; the stack exists; the memo entry of P is nil; the other
\* phases are as they were.
C19_AbortKeepsEarlierHandlers ==
    [][ (last'.op \in UseOps /\ last'.panic # None) =>
            LET P == last'.phase
                k == FirstUnsupported(last'.args)
            IN  /\ k # 0
                /\ P \in DOMAIN Pool'
                /\ Pool'[P] = StackOf(Pool, P)
                                \o Pushed(last'.args, k - 1, last'.priority, nextReg)
                /\ P \in DOMAIN memo' /\ memo'[P] = NilHandler
                /\ nextReg' = nextReg + k - 1
                /\ \A q \in DOMAIN Pool' \ {P} : q \in DOMAIN Pool /\ Pool'[q] = Pool[q]
                /\ \A q \in DOMAIN memo' \ {P} : q \in DOMAIN memo /\ memo'[q] = memo[q]
      ]_vars

\* A call of three arguments has panicked on the third: the two first are the
\* last entries of the stack, in the order of the call.
C19_Witness ==
    /\ last.op \in UseOps
    /\ last.panic # None
    /\ FirstUnsupported(last.args) = 3
    /\ Len(Pool[last.phase]) >= 2
    /\ last.regs = {nextReg - 2, nextReg - 1}
    /\ memo[last.phase] = NilHandler

\* A call has panicked on its first argument, for a phase that holds nothing: the
\* stack of the phase exists and is empty.
C19_WitnessCreated ==
    /\ last.op \in UseOps
    /\ last.panic # None
    /\ FirstUnsupported(last.args) = 1
    /\ last.phase \in DOMAIN Pool
    /\ Pool[last.phase] = EmptyStack

(***************************************************************************)
(* C12.  Order of a phase: priority, then registration.                    *)
(***************************************************************************)
\* The position in the stack of the entry that holds mw.
PushedAt(stack, mw) == CHOOSE i \in 1 .. Len(stack) : stack[i].mw = mw

\* The handlers of the stack of a phase that the last Run entered, in order.
HandlersOf(nodes) == SelectSeq(nodes, LAMBDA n : n.reg # 0)

\* C12: Join returns every handler of the stack once, a handler of lower priority
\* before one of higher priority and, of two handlers of equal priority, the one
\* registered first before the other; and Run enters the handlers in the order of
\* Join.
C12_PriorityThenRegistration ==
    /\ \A p \in DOMAIN Pool :
          LET stack == Pool[p]
              queue == Join(stack)
          IN  /\ Len(queue) = Len(stack)
              /\ \A i \in 1 .. Len(stack) : \E a \in 1 .. Len(queue) : queue[a] = stack[i].mw
              /\ \A a, b \in 1 .. Len(queue) :
                    a < b =>
                        LET i == PushedAt(stack, queue[a])
                            j == PushedAt(stack, queue[b])
                        IN  \/ stack[i].prio < stack[j].prio
                            \/ stack[i].prio = stack[j].prio /\ i < j
    /\ (IsRun /\ last.joined) =>
          LET queue == Join(Pool[last.phase])
              entered == HandlersOf(Trace)
          IN  /\ Len(entered) <= Len(queue)
              /\ \A i \in 1 .. Len(entered) : entered[i].reg = queue[i].reg

\* Three handlers registered with priorities 1, 0, 1 in that order: Join is the
\* second, the first, the third, and a Run has entered them so.
C12_Witness ==
    /\ IsRun
    /\ RequestPhase \in DOMAIN Pool
    /\ Len(Pool[RequestPhase]) = 3
    /\ [i \in 1 .. 3 |-> Pool[RequestPhase][i].prio] = <<1, 0, 1>>
    /\ [i \in 1 .. 3 |-> Pool[RequestPhase][i].mw.reg] = <<1, 2, 3>>
    /\ last.phase = RequestPhase
    /\ [i \in 1 .. Len(HandlersOf(Trace)) |-> HandlersOf(Trace)[i].reg] = <<2, 1, 3>>

(***************************************************************************)
(* C13.  The chain: the first handler of Join is the outermost.            *)
(***************************************************************************)
\* The handlers of the queue up to the first that does not call its downstream.
RECURSIVE EnteredOf(_)
EnteredOf(queue) ==
    IF queue = <<>> THEN <<>>
    ELSE IF CallsDownstream(Head(queue)) THEN <<Head(queue)>> \o EnteredOf(Tail(queue))
    ELSE <<Head(queue)>>

AllCallDownstream(queue) == \A k \in 1 .. Len(queue) : CallsDownstream(queue[k])

NodeOf(mw) == [name |-> mw.name, reg |-> mw.reg]

\* C13: a Run of a phase with a stack enters the handlers in Join order, handler
\* k + 1 exactly when the handlers 1 .. k all call their downstream, and then the
\* terminal exactly when every handler calls its downstream.
C13_FirstOfJoinIsOutermost ==
    (IsRun /\ last.joined) =>
        LET queue == Join(Pool[last.phase])
            entered == EnteredOf(queue)
            terminal == IF AllCallDownstream(queue)
                        THEN <<[name |-> TerminalOfRun[1].name, reg |-> 0]>>
                        ELSE <<>>
        IN  Trace = [i \in 1 .. Len(entered) |-> NodeOf(entered[i])] \o terminal

\* Three handlers, the two first calling their downstream and the third not: the
\* Run entered the three and not the terminal.
C13_Witness ==
    /\ IsRun /\ last.joined
    /\ Len(Join(Pool[last.phase])) = 3
    /\ Len(EnteredOf(Join(Pool[last.phase]))) = 3
    /\ ~AllCallDownstream(Join(Pool[last.phase]))
    /\ Len(Trace) = 3

\* Two handlers, the first not calling its downstream: the Run entered it alone.
C13_WitnessCut ==
    /\ IsRun /\ last.joined
    /\ Len(Join(Pool[last.phase])) >= 2
    /\ ~CallsDownstream(Join(Pool[last.phase])[1])
    /\ Len(Trace) = 1

\* Every handler calls its downstream: the Run entered them all, then the terminal.
C13_WitnessTerminal ==
    /\ IsRun /\ last.joined
    /\ Len(Join(Pool[last.phase])) >= 2
    /\ AllCallDownstream(Join(Pool[last.phase]))
    /\ Trace[Len(Trace)].reg = 0

(***************************************************************************)
(* C16.  Handlers that are given no downstream.                            *)
(***************************************************************************)
\* The node is a handler registered as a func(w, r) or as an http.Handler.
IgnoresDownstream(node) ==
    /\ node.reg # 0
    /\ \E args \in env.calls : \E i \in 1 .. Len(args) :
          /\ args[i].name = node.name
          /\ args[i].shape \in {"HandlerFunc", "httpHandler"}

\* C16: a handler registered as a func(w, r) or as an http.Handler is the last
\* node of the chain it is in, and nothing is entered after it: no later handler
\* and not the terminal.
C16_NoDownstreamForPlainHandlers ==
    IsRun =>
        /\ \A k \in 1 .. Len(last.chain) :
              IgnoresDownstream(last.chain[k]) => k = Len(last.chain)
        /\ \A k \in 1 .. Len(Trace) :
              IgnoresDownstream(Trace[k]) => k = Len(Trace)

\* An http.Handler value registered before another handler was entered by a Run
\* that went through a first handler, and ended it.
C16_Witness ==
    /\ IsRun /\ last.joined
    /\ Len(Join(Pool[last.phase])) = 3
    /\ Len(Trace) = 2
    /\ Trace[2].name = hdlStop.name
    /\ IgnoresDownstream(Trace[2])

\* The same for a func(w, r).
C16_WitnessFunc ==
    /\ IsRun /\ last.joined
    /\ Len(Join(Pool[last.phase])) = 3
    /\ Len(Trace) = 2
    /\ Trace[2].name = fnStop.name
    /\ IgnoresDownstream(Trace[2])

(***************************************************************************)
(* C14.  The memoized chain.                                               *)
(***************************************************************************)
\* C14 as stated: a Run of a phase whose memo entry holds a chain (compiled by an
\* earlier Run, no registration into the phase since) serves that chain and
\* does not call Join and compose again.
C14_CompiledChainServedDirectly ==
    (IsRun /\ last.compiled) => (~last.joined /\ ~last.stale)

(***************************************************************************)
(* C17.  A registration and the other phases.                              *)
(***************************************************************************)
\* A Pool without the identities the model gives to the pushed values.
Anonymous(pool) ==
    [p \in DOMAIN pool |->
        [i \in 1 .. Len(pool[p]) |-> [pool[p][i] EXCEPT !.mw.reg = 0]]]

\* What the Layer holds after Use(p1, a1) followed by UsePriority(p2, q2, a2).
UseThenUse(p1, q1, a1, p2, q2, a2) ==
    LET u == use(Pool, memo, nextReg, p1, q1, a1)
        v == use(u.Pool, u.memo, u.nextReg, p2, q2, a2)
    IN  [Pool |-> Anonymous(v.Pool), memo |-> v.memo, panic |-> <<u.panic, v.panic>>]

\* The chain a Run body served and what serving it did.
Served(b) == [chain |-> b.chain, events |-> b.events, fault |-> b.fault]

\* C17: a registration of adaptable handlers into phase P leaves, for every other
\* phase Q, the stack and the memo entry as they were (absent when absent), and
\* with them the chain Run composes and serves for Q; and it commutes with every
\* registration into another phase: done in either order, the two leave the same
\* stacks and the same memo.
C17_RegistrationTouchesOnePhase ==
    [][ (last'.op \in UseOps /\ last'.panic = None) =>
            \A q \in env.phases \ {last'.phase} :
                /\ (q \in DOMAIN Pool') = (q \in DOMAIN Pool)
                /\ q \in DOMAIN Pool => Pool'[q] = Pool[q]
                /\ (q \in DOMAIN memo') = (q \in DOMAIN memo)
                /\ q \in DOMAIN memo => memo'[q] = memo[q]
                /\ \A t \in env.terms :
                      Served(RunBody(Pool', memo', finalHandler', q, t))
                        = Served(RunBody(Pool, memo, finalHandler, q, t))
                /\ \A a \in env.calls, prio \in Priorities :
                      LET one == UseThenUse(last'.phase, last'.priority, last'.args,
                                            q, prio, a)
                          other == UseThenUse(q, prio, a,
                                              last'.phase, last'.priority, last'.args)
                      IN  /\ one.Pool = other.Pool
                          /\ one.memo = other.memo
      ]_vars

\* A handler has been registered into a phase while the other phase holds
\* handlers and the chain a Run compiled for it.
C17_Witness ==
    /\ last.op \in UseOps
    /\ last.panic = None
    /\ last.regs # {}
    /\ \E q \in env.phases \ {last.phase} :
          /\ q \in DOMAIN Pool /\ Pool[q] # EmptyStack
          /\ q \in DOMAIN memo /\ memo[q] # NilHandler

(***************************************************************************)
(* C18.  The terminal of the call.                                         *)
(***************************************************************************)
\* C18: the one terminal a Run enters in the chain of its phase is the terminal
\* of that call (its argument, or the final handler when it is given none), and
\* the Run enters it when every handler of the phase calls its downstream;
\* whatever the memo holds from an earlier Run.
C18_RunEndsInOwnTerminal ==
    IsRun =>
        /\ \A k \in 1 .. Len(Trace) :
              Trace[k].reg = 0 => Trace[k].name = TerminalOfRun[1].name
        /\ AllCallDownstream(Queue(last.phase)) =>
              /\ Len(Trace) = Len(Queue(last.phase)) + 1
              /\ Trace[Len(Trace)] = [name |-> TerminalOfRun[1].name, reg |-> 0]
              /\ last.chain[Len(last.chain)] = TerminalOfRun[1]

\* A phase with handlers that all call their downstream, whose memo holds the chain
\* an earlier Run compiled with another terminal, is run with a terminal of the
\* caller and ends in it.
C18_Witness ==
    /\ IsRun
    /\ last.compiled /\ last.stale
    /\ last.term # NilHandler
    /\ Queue(last.phase) # <<>>
    /\ AllCallDownstream(Queue(last.phase))
    /\ Trace[Len(Trace)].name = last.term[1].name

(***************************************************************************)
(* C20.  Registrable values.                                               *)
(***************************************************************************)
\* The names of the Registrable values of args, in order.
RegistrablesOf(args) ==
    LET rs == SelectSeq(args, IsRegistrable)
    IN  [i \in 1 .. Len(rs) |-> rs[i].name]

\* The Register method of no Registrable value of args registers into phase.
AddsNothingTo(phase, args) ==
    \A i \in 1 .. Len(args) :
        /\ IsRegistrable(args[i])
        /\ \A c \in 1 .. Len(args[i].register) : args[i].register[c].phase # phase

\* The names of the values the stacks hold.
PushedNames(pool) ==
    UNION { { pool[p][i].mw.name : i \in 1 .. Len(pool[p]) } : p \in DOMAIN pool }

\* C20: Use / UsePriority(P, ..) calls the Register method of each Registrable
\* argument once and pushes no Registrable value into a stack, whether or not
\* AdaptFunc would accept it; the stack of P exists and the memo entry of P is
\* nil after the call; and when the Register methods register nothing into P the
\* stack of P is as it was, so that, if it was empty or absent, a Run of P enters
\* the terminal alone.
C20_RegistrableRegistersItself ==
    [][ (last'.op \in UseOps /\ last'.panic = None) =>
            LET P == last'.phase
                args == last'.args
            IN  /\ last'.registers = RegistrablesOf(args)
                /\ \A a \in env.calls : \A i \in 1 .. Len(a) :
                      IsRegistrable(a[i]) => a[i].name \notin PushedNames(Pool')
                /\ P \in DOMAIN Pool'
                /\ P \in DOMAIN memo' /\ memo'[P] = NilHandler
                /\ AddsNothingTo(P, args) =>
                      /\ Pool'[P] = StackOf(Pool, P)
                      /\ StackOf(Pool, P) = EmptyStack =>
                            \A t \in env.terms :
                                LET b == RunBody(Pool', memo', finalHandler', P, t)
                                IN  /\ Len(Started(b.events)) = 1
                                    /\ Started(b.events)[1].reg = 0
      ]_vars

\* Use(P, r) was called for a phase without stack, r being a Registrable that is a
\* Handler too and whose Register registers nothing: Register was called once,
\* and the stack of P exists and is empty.
C20_Witness ==
    /\ last.op \in UseOps
    /\ last.args = <<plugHandler>>
    /\ AdaptFunc(plugHandler) # NilMiddleware
    /\ last.registers = <<plugHandler.name>>
    /\ last.phase \in DOMAIN Pool
    /\ Pool[last.phase] = EmptyStack
    /\ memo[last.phase] = NilHandler

\* Use(P, r) was called with a Registrable whose Register registered two handlers,
\* one of them into another phase than P.
C20_WitnessNested ==
    /\ last.op \in UseOps
    /\ last.args = <<plugBoth>>
    /\ last.registers = <<plugBoth.name>>
    /\ Cardinality(last.regs) = 2
    /\ \E q \in DOMAIN Pool \ {last.phase} : Pool[q] # EmptyStack

(***************************************************************************)
(* C15.  Use concurrent with Run.                                          *)
(***************************************************************************)
\* The chains Run composes from the stack of the phase as it is now.
ChainsOf(phase) ==
    { Compose(Join(Pool[phase]), t) : t \in (env.terms \ {NilHandler}) \cup {finalHandler} }

\* C15 as stated: when the Use and the Run in progress have both returned, the memo
\* entry of a phase is nil or a chain composed from the whole stack of the phase;
\* it is no chain that leaves out a handler registered in the phase.
C15_MemoNeverOmitsRegisteredHandler ==
    (inflight.use.pc = "idle" /\ inflight.run.pc = "idle") =>
        \A p \in DOMAIN memo :
            \/ memo[p] = NilHandler
            \/ p \in DOMAIN Pool /\ memo[p] \in ChainsOf(p)

\* The other outcome of the unsynchronised calls: the runtime has aborted the
\* process on the racing map accesses, and neither call returns.
C15_ProcessAborted ==
    /\ inflight.use.pc = "aborted"
    /\ inflight.run.pc = "aborted"
    /\ last.panic \in {"fatal error: concurrent map writes",
                       "fatal error: concurrent map read and map write"}

=============================================================================
